---- MODULE Spec2Model ----
(***************************************************************************)
(* News dashboard backend: the two TTL caches (nlp_utils.cache,            *)
(* api_utils.news_cache), the NLP annotator, the News API client and the   *)
(* SQLite persistence store, as state machines.                            *)
(*                                                                         *)
(* Time is the caches' monotonic timer in seconds.  It advances in steps   *)
(* of Step, between calls (Tick) and inside a call between two             *)
(* statements that read the timer (the `dt` inputs of the handlers).       *)
(***************************************************************************)
EXTENDS Integers, Sequences, FiniteSets, TLC

VARIABLES
    clock,      \* the caches' timer (time.monotonic), seconds
    nlpCache,   \* nlp_utils.cache: links in LRU order, oldest use first
    newsCache,  \* api_utils.news_cache: same shape
    ret,        \* the last call: its operation, inputs and outcome
    underTest,  \* the cache ("nlp" or "news") whose TTL sets the timer step of a run
    putAt,      \* SpecCache: the time of the last put of WatchedKey (-1: never)
    pc,         \* "idle", or "enrich" while enrich_articles runs its loop
    pending,    \* enrich_articles: the articles the loop has not reached
    enriched,   \* enrich_articles: the list `enriched` built so far
    configKey,  \* Config.NEWS_API_KEY
    news_api,   \* api_utils.news_api: the module-level client, or None
    clients,    \* the api keys of the NewsAPIClient objects that exist
    httpGets,   \* number of requests.get calls made by _make_request
    watched,    \* the get_top_headlines filter set whose calls are recorded
    lastCall,   \* the last get_top_headlines call with the watched filter set
    lastFetch,  \* the last such call that issued a GET
    db,         \* the SQLite database: the tables users, user_preferences, article_feedback
    connections \* the number of sqlite3 connections that are open

vars == <<clock, nlpCache, newsCache, ret, underTest, putAt, pc, pending, enriched,
          configKey, news_api, clients, httpGets, watched, lastCall, lastFetch, db,
          connections>>

ghostVars == <<underTest, putAt>>
enrichVars == <<pc, pending, enriched>>
watchVars == <<watched, lastCall, lastFetch>>
newsVars == <<configKey, news_api, clients, httpGets, watchVars>>
memoryVars == <<clock, nlpCache, newsCache, ghostVars, enrichVars, newsVars>>

\* ---------------------------------------------------------------- bounds
\* Capacity of each cache in the model.  Both caches are built with
\* maxsize=100 (nlp_utils.py:19, api_utils.py:15); the model keeps the same
\* eviction rule on a capacity small enough to fill.
CacheCap == 2
\* Granularity of the timer: the timer is observed this many times per TTL
\* of the cache a specification exercises; and the number of timer steps
\* in a run.
TicksPerTtl == 2
MaxTicks == 2

\* Rows of users and of article_feedback, and ids of user_preferences, in
\* the model.
MaxUsers == 2
MaxFeedback == 2
\* Rows of reading_history in the model.
MaxHistory == 2

\* ------------------------------------------------------ program constants
NlpTtl == 300
NewsTtl == 1800
\* '-24 hours' of get_cached_article and cleanup_old_cache, in seconds.
ArticleMaxAge == 86400

\* ------------------------------------------------------------- TTLCache
\* A cache is a sequence of links [key, val, expires] in the order of the
\* cache's OrderedDict of links: least recently used first.

RECURSIVE SelectLive(_, _)
\* TTLCache.expire(time): drop every link with not (time < link.expires).
SelectLive(c, t) ==
    IF c = <<>> THEN <<>>
    ELSE IF t < Head(c).expires
         THEN <<Head(c)>> \o SelectLive(Tail(c), t)
         ELSE SelectLive(Tail(c), t)

RECURSIVE Without(_, _)
Without(c, k) ==
    IF c = <<>> THEN <<>>
    ELSE IF Head(c).key = k THEN Without(Tail(c), k)
         ELSE <<Head(c)>> \o Without(Tail(c), k)

HasKey(c, k) == \E i \in 1..Len(c) : c[i].key = k

LinkOf(c, k) == c[CHOOSE i \in 1..Len(c) : c[i].key = k]

\* TTLCache.__contains__: the key has a link and timer() < link.expires.
\* It does not reorder the links.
CacheContains(c, k, t) == HasKey(c, k) /\ t < LinkOf(c, k).expires

\* TTLCache.__getitem__: __getlink moves the key's link to the MRU end (also
\* when it has expired); an absent or expired key raises KeyError.
CacheGetItem(c, k, t) ==
    IF ~HasKey(c, k)
    THEN [cache |-> c, raised |-> TRUE, hit |-> FALSE]
    ELSE LET l == LinkOf(c, k)
             moved == Without(c, k) \o <<l>>
         IN  IF t < l.expires
             THEN [cache |-> moved, raised |-> FALSE, hit |-> TRUE, val |-> l.val]
             ELSE [cache |-> moved, raised |-> TRUE, hit |-> FALSE]

RECURSIVE PopToFit(_, _)
\* Cache.__setitem__'s loop `while currsize + size > maxsize: popitem()`;
\* TTLCache.popitem removes the first (least recently used) link.
PopToFit(c, cap) == IF Len(c) + 1 > cap /\ c # <<>> THEN PopToFit(Tail(c), cap) ELSE c

\* TTLCache.__setitem__ with the timer frozen at t: expire, make room when
\* the key is new, store, and (re)link the key at the MRU end with
\* expires = t + ttl.
CacheSetItem(c, k, v, t, ttl, cap) ==
    LET live == SelectLive(c, t)
    IN  IF HasKey(live, k)
        THEN Without(live, k) \o <<[key |-> k, val |-> v, expires |-> t + ttl]>>
        ELSE PopToFit(live, cap) \o <<[key |-> k, val |-> v, expires |-> t + ttl]>>

\* The two instances as constructed.
NlpCacheSetMutantNewsTtl(c, k, v, t) == CacheSetItem(c, k, v, t, NewsTtl, CacheCap)

NlpCacheSet(c, k, v, t) == CacheSetItem(c, k, v, t, NlpTtl, CacheCap)
NewsCacheSetMutantNlpTtl(c, k, v, t) == CacheSetItem(c, k, v, t, NlpTtl, CacheCap)
NewsCacheSet(c, k, v, t) == CacheSetItem(c, k, v, t, NewsTtl, CacheCap)

\* --------------------------------------------------- raw cache operations
\* The cache operations as the modules use them (`k in cache`, `cache[k]`,
\* `cache[k] = v`) applied directly to one of the two instances.
RawKeys == 1..(CacheCap + 1)
RawVals == {"v1", "v2"}
\* The key whose puts are timed; the other keys are the interference.
WatchedKey == CHOOSE k \in RawKeys : TRUE
NoPrev == [op |-> "none", inst |-> "none", key |-> 0, val |-> "none", evicting |-> FALSE]
NoRet == [op |-> "none"]

TtlOf(inst) ==
    IF inst = "nlp" THEN NlpTtl ELSE IF inst = "article_cache" THEN ArticleMaxAge ELSE NewsTtl

\* What a raw get remembers of the operation right before it.
PrevOf(r, inst, k) ==
    IF r.op = "put" /\ r.inst = inst /\ r.key = k
    THEN [op |-> "put", inst |-> r.inst, key |-> r.key, val |-> r.val, evicting |-> r.evicting]
    ELSE NoPrev

\* The timer step and the last instant of a run whose granularity follows
\* the cache `underTest`.
Quantum(ttl) == ttl \div TicksPerTtl
Step == Quantum(TtlOf(underTest))
Horizon == MaxTicks * Step
Slips == {0, Step}

\* Time passes between two calls.
Tick ==
    /\ pc = "idle"
    /\ clock + Step <= Horizon
    /\ clock' = clock + Step
    /\ ret' = [op |-> "tick"]
    /\ UNCHANGED <<db, connections, nlpCache, newsCache, ghostVars, enrichVars, newsVars>>

\* cache[k] = v on nlp_utils.cache
NlpPut(k, v) ==
    /\ underTest = "nlp"
    /\ nlpCache' = NlpCacheSet(nlpCache, k, v, clock)
    /\ putAt' = IF k = WatchedKey THEN clock ELSE putAt
    /\ ret' = [op |-> "put", inst |-> "nlp", key |-> k, val |-> v, at |-> clock,
               evicting |-> Len(SelectLive(nlpCache, clock)) >= CacheCap
                           /\ ~HasKey(SelectLive(nlpCache, clock), k)]
    /\ UNCHANGED <<db, connections, clock, newsCache, underTest, enrichVars, newsVars>>

\* `k in cache` then cache[k] on nlp_utils.cache, at one instant
NlpGet(k) ==
    /\ underTest = "nlp"
    /\ \E r \in {CacheGetItem(nlpCache, k, clock)} :
        /\ nlpCache' = r.cache
        /\ ret' = [op |-> "get", inst |-> "nlp", key |-> k,
                   contains |-> CacheContains(nlpCache, k, clock),
                   val |-> IF r.raised THEN "miss" ELSE r.val, at |-> clock,
                   raised |-> r.raised, prev |-> PrevOf(ret, "nlp", k)]
        /\ UNCHANGED <<db, connections, clock, newsCache, underTest, putAt, enrichVars, newsVars>>

\* news_cache[k] = v
NewsPut(k, v) ==
    /\ underTest = "news"
    /\ newsCache' = NewsCacheSet(newsCache, k, v, clock)
    /\ putAt' = IF k = WatchedKey THEN clock ELSE putAt
    /\ ret' = [op |-> "put", inst |-> "news", key |-> k, val |-> v, at |-> clock,
               evicting |-> Len(SelectLive(newsCache, clock)) >= CacheCap
                           /\ ~HasKey(SelectLive(newsCache, clock), k)]
    /\ UNCHANGED <<db, connections, clock, nlpCache, underTest, enrichVars, newsVars>>

\* `k in news_cache` then news_cache[k], at one instant
NewsGet(k) ==
    /\ underTest = "news"
    /\ \E r \in {CacheGetItem(newsCache, k, clock)} :
        /\ newsCache' = r.cache
        /\ ret' = [op |-> "get", inst |-> "news", key |-> k,
                   contains |-> CacheContains(newsCache, k, clock),
                   val |-> IF r.raised THEN "miss" ELSE r.val, at |-> clock,
                   raised |-> r.raised, prev |-> PrevOf(ret, "news", k)]
        /\ UNCHANGED <<db, connections, clock, nlpCache, underTest, putAt, enrichVars, newsVars>>

NoCall == [at |-> -1, gets |-> 0, ok |-> FALSE, evicted |-> FALSE]
NoFilter == [country |-> "<None>", category |-> "<None>", q |-> "<None>",
             page_size |-> 0, page |-> 0]

\* No row of user_preferences for a user id.
NoRow == [exists |-> FALSE, categories |-> <<>>, countries |-> <<>>,
          language |-> "<None>", sentiment |-> "<None>"]

\* Ids of the users the model follows.
UserIds == 1..MaxUsers

\* The database with its tables created and empty.
EmptyDb == [users |-> <<>>, prefs |-> [u \in UserIds |-> NoRow], feedback |-> <<>>,
            history |-> <<>>, article_cache |-> <<>>]

\* The in-memory state right after the modules are imported: both caches
\* empty, no call made.
InitMemory ==
    /\ clock = 0
    /\ nlpCache = <<>>
    /\ newsCache = <<>>
    /\ ret = NoRet
    /\ putAt = -1
    /\ pc = "idle"
    /\ pending = <<>>
    /\ enriched = <<>>
    /\ httpGets = 0
    /\ lastCall = NoCall
    /\ lastFetch = NoCall

\* The state right after the modules are imported, over a database whose
\* tables are empty.
InitCommon ==
    /\ InitMemory
    /\ db = EmptyDb
    /\ connections = 0


\* No API key configured: the module-level client is None.
NoClient == [client |-> FALSE, api_key |-> "<None>"]

InitNoKey ==
    /\ configKey = "<None>"
    /\ news_api = NoClient
    /\ clients = {}
    /\ watched = NoFilter

InitCache ==
    /\ InitCommon
    /\ InitNoKey
    /\ underTest \in {"nlp", "news"}

NextCache ==
    \/ Tick
    \/ \E k \in RawKeys, v \in RawVals : NlpPut(k, v)
    \/ \E k \in RawKeys : NlpGet(k)
    \/ \E k \in RawKeys, v \in RawVals : NewsPut(k, v)
    \/ \E k \in RawKeys : NewsGet(k)

SpecCache == InitCache /\ [][NextCache]_vars

\* C5: on either instance, a put(k, v) immediately followed by get(k)
\* returns v whatever the cache held before (also when it was full), and a
\* get(k) made once the instance's TTL has elapsed since the last put of k
\* is a miss (`k in cache` is false and cache[k] raises KeyError).
C5_RoundTripAndExpiry ==
    ret.op = "get" =>
        /\ (ret.prev.op = "put" /\ ret.prev.inst = ret.inst /\ ret.prev.key = ret.key)
             => (~ret.raised /\ ret.contains /\ ret.val = ret.prev.val)
        /\ (ret.key = WatchedKey /\ putAt >= 0 /\ ret.at >= putAt + TtlOf(ret.inst))
             => (ret.raised /\ ~ret.contains)

\* C5 witness: a get right after the put of a new key into a full cache
\* returned the value put.
C5_Witness ==
    /\ ret.op = "get"
    /\ ret.prev.op = "put" /\ ret.prev.key = ret.key /\ ret.prev.evicting
    /\ ret.val = ret.prev.val
    /\ ret.key = WatchedKey /\ putAt = ret.at


\* ==================================================================== NLP
\* Texts are sequences of tokens; " " is the blank the f-string of
\* enrich_articles puts between title and description.
Letters == {"ai", "AI", "tech", "None", "the"}
StopWords == {"the"}

\* token.is_alpha, token.is_stop, token.is_punct as spaCy reports them
IsAlpha(tok) == tok \in Letters
IsStop(tok) == tok \in StopWords
IsPunct(tok) == tok = "!"

\* str.lower()
Lower(tok) == IF tok = "AI" THEN "ai" ELSE IF tok = "None" THEN "none" ELSE tok

TokCode(tok) ==
    CASE tok = " " -> 1 [] tok = "ai" -> 2 [] tok = "AI" -> 3 [] tok = "tech" -> 4
      [] tok = "None" -> 5 [] tok = "the" -> 6 [] OTHER -> 7

RECURSIVE Hash(_)
\* hash(text): a number computed from the characters, equal for equal texts.
\* On the few short texts of the model the codes stay distinct, as the
\* 64-bit hash does on so few strings.
Hash(text) == IF text = <<>> THEN 0 ELSE (Hash(Tail(text)) * 8 + TokCode(Head(text))) % 32768

RECURSIVE KeywordTokens(_)
\* [token.text.lower() for token in doc
\*    if not token.is_stop and not token.is_punct and token.is_alpha]
KeywordTokens(text) ==
    IF text = <<>> THEN <<>>
    ELSE LET tok == Head(text)
         IN  IF ~IsStop(tok) /\ ~IsPunct(tok) /\ IsAlpha(tok)
             THEN <<Lower(tok)>> \o KeywordTokens(Tail(text))
             ELSE KeywordTokens(Tail(text))

CountOf(ws, w) == Cardinality({i \in 1..Len(ws) : ws[i] = w})

RECURSIVE FirstSeen(_, _)
\* The keys of Counter(keywords) in insertion (first-occurrence) order.
FirstSeen(ws, seen) ==
    IF ws = <<>> THEN <<>>
    ELSE IF Head(ws) \in seen THEN FirstSeen(Tail(ws), seen)
         ELSE <<Head(ws)>> \o FirstSeen(Tail(ws), seen \cup {Head(ws)})

RECURSIVE InsertByCount(_, _)
\* Stable insertion in non-increasing order of count: an entry goes after
\* every entry whose count is at least its own.
InsertByCount(sorted, e) ==
    IF sorted = <<>> THEN <<e>>
    ELSE IF Head(sorted)[2] >= e[2]
         THEN <<Head(sorted)>> \o InsertByCount(Tail(sorted), e)
         ELSE <<e>> \o sorted

RECURSIVE SortByCount(_, _)
SortByCount(entries, acc) ==
    IF entries = <<>> THEN acc
    ELSE SortByCount(Tail(entries), InsertByCount(acc, Head(entries)))

Take(sq, n) == IF n <= 0 THEN <<>> ELSE SubSeq(sq, 1, IF n < Len(sq) THEN n ELSE Len(sq))

\* Counter(keywords).most_common(top_n): (term, count) pairs by count,
\* highest first, equal counts in first-occurrence order, the first top_n.
MostCommon(ws, n) ==
    LET keys == FirstSeen(ws, {})
        entries == [i \in 1..Len(keys) |-> <<keys[i], CountOf(ws, keys[i])>>]
    IN  Take(SortByCount(entries, <<>>), n)

\* Polarity scores of the external scorer, scaled by 100.
PolarityThreshold == 10

SentimentLabelMutantInclusive(pol) ==
    IF pol >= PolarityThreshold THEN "positive"
    ELSE IF pol <= -PolarityThreshold THEN "negative" ELSE "neutral"

\* polarity > 0.1 -> positive, < -0.1 -> negative, else neutral
SentimentLabel(pol) ==
    IF pol > PolarityThreshold THEN "positive"
    ELSE IF pol < -PolarityThreshold THEN "negative"
    ELSE "neutral"

SentimentKey(text) == [kind |-> "sentiment", h |-> Hash(text)]
KeywordsKey(text) == [kind |-> "keywords", h |-> Hash(text)]
NerKey(text) == [kind |-> "ner", h |-> Hash(text)]
SummaryKey(url) == [kind |-> "summary", h |-> url]

\* Each annotator below is the method run from instant t on cache c; dt is
\* the time that passes between its `cache_key in cache` test and its next
\* access to the cache.  The result carries the cache and the instant after
\* the call, whether the call raised, and what it returned.

\* NLPProcessor.analyze_sentiment; scorerOk is whether TextBlob succeeds,
\* pol the polarity it then reports.
AnalyzeSentimentOp(c, t, text, scorerOk, pol, dt) ==
    IF text = <<>>
    THEN [cache |-> c, now |-> t, raised |-> FALSE, val |-> "neutral",
          scored |-> FALSE, cacheRead |-> FALSE, cacheWrote |-> FALSE]
    ELSE IF CacheContains(c, SentimentKey(text), t)
    THEN LET g == CacheGetItem(c, SentimentKey(text), t + dt)
         IN  [cache |-> g.cache, now |-> t + dt, raised |-> g.raised,
              val |-> IF g.raised THEN "KeyError" ELSE g.val,
              scored |-> FALSE, cacheRead |-> TRUE, cacheWrote |-> FALSE]
    ELSE IF ~scorerOk
    THEN [cache |-> c, now |-> t + dt, raised |-> FALSE, val |-> "neutral",
          scored |-> TRUE, cacheRead |-> TRUE, cacheWrote |-> FALSE]
    ELSE [cache |-> NlpCacheSet(c, SentimentKey(text), SentimentLabel(pol), t + dt),
          now |-> t + dt, raised |-> FALSE, val |-> SentimentLabel(pol),
          scored |-> TRUE, cacheRead |-> TRUE, cacheWrote |-> TRUE]

\* NLPProcessor.extract_keywords; spacyOk is whether nlp(text) succeeds.
ExtractKeywordsOp(c, t, text, top_n, spacyOk, dt) ==
    IF text = <<>>
    THEN [cache |-> c, now |-> t, raised |-> FALSE, val |-> <<>>, hit |-> FALSE]
    ELSE IF CacheContains(c, KeywordsKey(text), t)
    THEN LET g == CacheGetItem(c, KeywordsKey(text), t + dt)
         IN  [cache |-> g.cache, now |-> t + dt, raised |-> g.raised,
              val |-> IF g.raised THEN <<>> ELSE g.val, hit |-> TRUE]
    ELSE IF ~spacyOk
    THEN [cache |-> c, now |-> t + dt, raised |-> FALSE, val |-> <<>>, hit |-> FALSE]
    ELSE LET top == MostCommon(KeywordTokens(text), top_n)
         IN  [cache |-> NlpCacheSet(c, KeywordsKey(text), top, t + dt),
              now |-> t + dt, raised |-> FALSE, val |-> top, hit |-> FALSE]

RECURSIVE EntitiesOf(_)
\* doc.ents as (text, label) pairs: the tagger is external; in the model it
\* tags the token "AI" as an organisation.
EntitiesOf(text) ==
    IF text = <<>> THEN <<>>
    ELSE IF Head(text) = "AI" THEN << <<"AI", "ORG">> >> \o EntitiesOf(Tail(text))
         ELSE EntitiesOf(Tail(text))

\* NLPProcessor.get_named_entities
GetNamedEntitiesOp(c, t, text, spacyOk, dt) ==
    IF text = <<>>
    THEN [cache |-> c, now |-> t, raised |-> FALSE, val |-> <<>>]
    ELSE IF CacheContains(c, NerKey(text), t)
    THEN LET g == CacheGetItem(c, NerKey(text), t + dt)
         IN  [cache |-> g.cache, now |-> t + dt, raised |-> g.raised,
              val |-> IF g.raised THEN <<>> ELSE g.val]
    ELSE IF ~spacyOk
    THEN [cache |-> c, now |-> t + dt, raised |-> FALSE, val |-> <<>>]
    ELSE [cache |-> NlpCacheSet(c, NerKey(text), EntitiesOf(text), t + dt),
          now |-> t + dt, raised |-> FALSE, val |-> EntitiesOf(text)]

\* NLPProcessor.summarize_article; fetched is whether download, parse and
\* nlp of the page all succeed.  A summary is the text <<"summary", url>>,
\* a failure returns None.
SummarizeArticleOp(c, t, url, fetched, dt) ==
    IF CacheContains(c, SummaryKey(url), t)
    THEN LET g == CacheGetItem(c, SummaryKey(url), t + dt)
         IN  [cache |-> g.cache, now |-> t + dt, raised |-> g.raised,
              val |-> IF g.raised THEN <<"KeyError">> ELSE g.val]
    ELSE IF ~fetched
    THEN [cache |-> c, now |-> t + dt, raised |-> FALSE, val |-> <<"None">>]
    ELSE [cache |-> NlpCacheSet(c, SummaryKey(url), <<"summary", url>>, t + dt),
          now |-> t + dt, raised |-> FALSE, val |-> <<"summary", url>>]


\* ------------------------------------------------------------- articles
\* A field of an article dict: a text, or absent from the dict, or null.
Missing == <<"<missing>">>
Null == <<"<null>">>

\* What the f-string of enrich_articles renders for article.get(field, ''):
\* '' for an absent key, 'None' for a null value.
FieldText(f) == IF f = Missing THEN <<>> ELSE IF f = Null THEN <<"None">> ELSE f

\* f"{article.get('title', '')} {article.get('description', '')}"
ArticleText(a) == FieldText(a.title) \o <<" ">> \o FieldText(a.description)

\* The articles of the model; url 0 is an absent url.  The last one is an
\* element of the list that is no dict (article.get raises).
ArticlePool ==
    { [kind |-> "dict", title |-> <<"AI">>, description |-> Missing, url |-> 1],
      [kind |-> "dict", title |-> <<"ai">>, description |-> <<"AI", " ", "tech">>, url |-> 0],
      [kind |-> "other", title |-> Missing, description |-> Missing, url |-> 0] }

MaxArticles == 2

RECURSIVE SeqsUpTo(_, _)
SeqsUpTo(S, n) ==
    IF n = 0 THEN {<<>>}
    ELSE LET shorter == SeqsUpTo(S, n - 1)
         IN  shorter \cup {Append(q, x) : q \in {r \in shorter : Len(r) = n - 1}, x \in S}

ArticleLists == SeqsUpTo(ArticlePool, MaxArticles)

\* The texts the annotators are called with directly.
NlpTexts == {<<>>} \cup {ArticleText(a) : a \in {x \in ArticlePool : x.kind = "dict"}}
\* The texts whose sentiment is asked for directly: none, and one text.
SentimentTexts == {<<>>, CHOOSE t \in NlpTexts : t # <<>> /\ KeywordTokens(t) = <<"ai">>}

DefaultTopN == 10
EnrichTopN == 5
TopNs == {1, EnrichTopN, DefaultTopN}

Polarities == {-100, -11, -10, 0, 10, 11, 100}


\* --------------------------------------------------- annotator calls
\* nlp_processor.analyze_sentiment(text)
AnalyzeSentiment(text, scorerOk, pol, dt) ==
    /\ pc = "idle"
    /\ clock + dt <= Horizon
    /\ \E r \in {AnalyzeSentimentOp(nlpCache, clock, text, scorerOk, pol, dt)} :
        /\ nlpCache' = r.cache
        /\ clock' = r.now
        /\ ret' = [op |-> "analyze_sentiment", text |-> text, raised |-> r.raised,
                   val |-> r.val, scored |-> r.scored, cacheRead |-> r.cacheRead,
                   cacheWrote |-> r.cacheWrote, pol |-> pol]
        /\ UNCHANGED <<db, connections, newsCache, ghostVars, enrichVars, newsVars>>

\* nlp_processor.extract_keywords(text, top_n)
ExtractKeywords(text, top_n, spacyOk, dt) ==
    /\ pc = "idle"
    /\ clock + dt <= Horizon
    /\ \E r \in {ExtractKeywordsOp(nlpCache, clock, text, top_n, spacyOk, dt)} :
        /\ nlpCache' = r.cache
        /\ clock' = r.now
        /\ ret' = [op |-> "extract_keywords", text |-> text, top_n |-> top_n,
                   raised |-> r.raised, val |-> r.val, hit |-> r.hit]
        /\ UNCHANGED <<db, connections, newsCache, ghostVars, enrichVars, newsVars>>

InitNlp ==
    /\ InitCommon
    /\ InitNoKey
    /\ underTest = "nlp"

NextNlp ==
    \/ Tick
    \/ \E text \in SentimentTexts, pol \in Polarities, dt \in Slips :
          AnalyzeSentiment(text, TRUE, pol, dt)
    \/ \E text \in SentimentTexts, dt \in Slips : AnalyzeSentiment(text, FALSE, 0, dt)
    \/ \E text \in NlpTexts, n \in TopNs, spacyOk \in BOOLEAN, dt \in Slips :
          ExtractKeywords(text, n, spacyOk, dt)

SpecNlp == InitNlp /\ [][NextNlp]_vars

RECURSIVE NonIncreasingCounts(_)
NonIncreasingCounts(kws) ==
    \/ Len(kws) <= 1
    \/ (kws[1][2] >= kws[2][2] /\ NonIncreasingCounts(Tail(kws)))

\* C2 (as claimed): extract_keywords(text, n) on a non-empty text returns at
\* most n (term, count) entries, each count >= 1, in non-increasing order
\* of count, in every state of the NLP cache.
C2_AtMostNSorted ==
    (ret.op = "extract_keywords" /\ ret.text # <<>> /\ ~ret.raised) =>
        /\ Len(ret.val) <= ret.top_n
        /\ \A i \in 1..Len(ret.val) : ret.val[i][2] >= 1
        /\ NonIncreasingCounts(ret.val)

\* C6 (as claimed): analyze_sentiment returns one of the three labels in
\* every cache state; for an empty text it returns neutral without calling
\* the scorer and without reading or writing the cache.
C6_SentimentLabel ==
    ret.op = "analyze_sentiment" =>
        /\ ~ret.raised
        /\ ret.val \in {"positive", "neutral", "negative"}
        /\ ret.text = <<>> =>
             (ret.val = "neutral" /\ ~ret.scored /\ ~ret.cacheRead /\ ~ret.cacheWrote)


\* ------------------------------------------------------ enrich_articles
\* The loop of enrich_articles runs one article per step; nothing else runs
\* while it does (the program is single-threaded).

\* An annotator call the loop body never reached because an earlier
\* statement of the try block raised.
Skipped(prev) == [cache |-> prev.cache, now |-> prev.now, raised |-> TRUE, val |-> <<>>]

\* What the external models do during one loop iteration: at most one of
\* them fails; polarity as reported by the scorer.
ExtOutcomes ==
    { [fails |-> f, pol |-> p] :
        f \in {"none", "textblob", "spacy_keywords", "spacy_ner", "newspaper"},
        p \in {-100, 0, 100} }

\* The time passing inside each of the four annotator calls of an iteration.
SlipVectors == [1..4 -> Slips]
NoSlips == [i \in 1..4 |-> 0]

\* enrich_articles(articles): enriched = []
EnrichStart(articles, caller) ==
    /\ pc = "idle"
    /\ pc' = "enrich"
    /\ pending' = articles
    /\ enriched' = <<>>
    /\ ret' = [op |-> "enrich_start", articles |-> articles, caller |-> caller,
               raised |-> FALSE, val |-> <<>>, failedRequest |-> FALSE]
    /\ UNCHANGED <<db, connections, clock, nlpCache, newsCache, ghostVars, newsVars>>

\* One iteration of `for article in articles` on a dict: the try block up
\* to the first statement that raises, then enriched.append(article) (in
\* the try block or in the except clause).  The article dict is updated in
\* place, so `added` lists the fields this call has set on it either way.
EnrichDict(ext, dts) ==
    /\ pc = "enrich" /\ pending # <<>>
    /\ Head(pending).kind = "dict"
    /\ LET a == Head(pending)
           text == ArticleText(a)
       IN  \E s \in {AnalyzeSentimentOp(nlpCache, clock, text,
                                       ext.fails # "textblob", ext.pol, dts[1])} :
           \E k \in {IF s.raised THEN Skipped(s)
                     ELSE ExtractKeywordsOp(s.cache, s.now, text, EnrichTopN,
                                            ext.fails # "spacy_keywords", dts[2])} :
           \E n \in {IF k.raised THEN Skipped(k)
                     ELSE GetNamedEntitiesOp(k.cache, k.now, text,
                                             ext.fails # "spacy_ner", dts[3])} :
           \E m \in {IF n.raised THEN Skipped(n)
                     ELSE IF a.url # 0
                          THEN SummarizeArticleOp(n.cache, n.now, a.url,
                                                  ext.fails # "newspaper", dts[4])
                          ELSE [cache |-> n.cache, now |-> n.now, raised |-> FALSE,
                                val |-> <<>>]} :
              /\ m.now <= Horizon
              /\ nlpCache' = m.cache
              /\ clock' = m.now
              /\ enriched' = Append(enriched,
                    [art |-> a,
                     failed |-> m.raised,
                     added |-> (IF s.raised THEN {} ELSE {"sentiment"})
                               \cup (IF k.raised THEN {} ELSE {"keywords"})
                               \cup (IF n.raised THEN {} ELSE {"named_entities"})
                               \cup (IF m.raised \/ a.url = 0 THEN {} ELSE {"summary"}),
                     sentiment |-> IF s.raised THEN "<unset>" ELSE s.val])
    /\ pending' = Tail(pending)
    /\ UNCHANGED <<db, connections, pc, ret, newsCache, ghostVars, newsVars>>

\* One iteration on an element that is no dict: article.get raises, the
\* except clause appends the element as it is.
EnrichOther ==
    /\ pc = "enrich" /\ pending # <<>>
    /\ Head(pending).kind # "dict"
    /\ enriched' = Append(enriched, [art |-> Head(pending), failed |-> TRUE, added |-> {},
                                     sentiment |-> "<unset>"])
    /\ pending' = Tail(pending)
    /\ UNCHANGED <<db, connections, pc, ret, clock, nlpCache, newsCache, ghostVars, newsVars>>

\* return enriched
EnrichReturn ==
    /\ pc = "enrich" /\ pending = <<>>
    /\ pc' = "idle"
    /\ ret' = [ret EXCEPT !.op = ret.caller, !.val = enriched]
    /\ UNCHANGED <<db, connections, clock, nlpCache, newsCache, ghostVars, newsVars, pending, enriched>>


InitEnrich ==
    /\ InitCommon
    /\ InitNoKey
    /\ underTest = "nlp"

NextEnrich ==
    \/ Tick
    \/ \E articles \in ArticleLists : EnrichStart(articles, "enrich_articles")
    \/ \E ext \in ExtOutcomes, dts \in SlipVectors : EnrichDict(ext, dts)
    \/ EnrichOther
    \/ EnrichReturn

SpecEnrich == InitEnrich /\ [][NextEnrich]_vars

SentimentLabels == {"positive", "neutral", "negative"}

\* C7 (as claimed): enrich_articles never raises and returns the input
\* articles in order, one output per input; an article whose enrichment
\* went through carries a sentiment label (also when it has no description),
\* and an article for which an enrichment step failed carries none of the
\* fields this call adds.
C7_EnrichedOrUntouched ==
    ret.op = "enrich_articles" =>
        /\ ~ret.raised
        /\ Len(ret.val) = Len(ret.articles)
        /\ \A i \in 1..Len(ret.val) :
              /\ ret.val[i].art = ret.articles[i]
              /\ ret.val[i].failed => ret.val[i].added = {}
              /\ ~ret.val[i].failed =>
                    ("sentiment" \in ret.val[i].added
                       /\ ret.val[i].sentiment \in SentimentLabels)


\* ============================================================ News client
\* Python truthiness of an optional string: None and '' are falsy.
Truthy(x) == x # "<None>" /\ x # ""

NewsAPIClientInitMutantNoCheck(passed, cfg) ==
    [raised |-> FALSE, api_key |-> IF Truthy(passed) THEN passed ELSE cfg]

\* NewsAPIClient.__init__(api_key): api_key or Config.NEWS_API_KEY, and
\* ValueError when that is falsy.
NewsAPIClientInit(passed, cfg) ==
    LET key == IF Truthy(passed) THEN passed ELSE cfg
    IN  IF ~Truthy(key) THEN [raised |-> TRUE, api_key |-> key]
        ELSE [raised |-> FALSE, api_key |-> key]

\* The module's last statements: news_api = NewsAPIClient(), or None when
\* the constructor raises ValueError.
ModuleNewsApi(cfg) ==
    LET r == NewsAPIClientInit("<None>", cfg)
    IN  IF r.raised THEN NoClient ELSE [client |-> TRUE, api_key |-> r.api_key]


Absent == "<absent>"
NoneInt == -1
Opt(x) == IF Truthy(x) THEN x ELSE Absent
Min(a, b) == IF a < b THEN a ELSE b
PageSizeLimit == 100

NoParams ==
    [country |-> Absent, category |-> Absent, q |-> Absent, pageSize |-> NoneInt,
     page |-> NoneInt, language |-> Absent, sortBy |-> Absent, from |-> Absent,
     to |-> Absent, apiKey |-> Absent]

\* The params dict get_top_headlines builds: pageSize = min(page_size, 100),
\* page, and country, category, q only when truthy.
HeadlinesParams(f) ==
    [NoParams EXCEPT !.pageSize = Min(f.page_size, PageSizeLimit), !.page = f.page,
                     !.country = Opt(f.country), !.category = Opt(f.category),
                     !.q = Opt(f.q)]

\* The params dict of search_everything.
SearchParams(f) ==
    [NoParams EXCEPT !.q = f.q, !.language = f.language, !.sortBy = f.sort_by,
                     !.pageSize = Min(f.page_size, PageSizeLimit), !.page = f.page,
                     !.from = Opt(f.from_date), !.to = Opt(f.to_date)]

\* The params dict of get_sources.
SourcesParams(f) ==
    [NoParams EXCEPT !.language = f.language, !.category = Opt(f.category),
                     !.country = Opt(f.country)]

\* f"{endpoint}_{json.dumps(params, sort_keys=True)}" after
\* params['apiKey'] = self.api_key
RequestKey(endpoint, params, apiKey) ==
    [endpoint |-> endpoint, params |-> [params EXCEPT !.apiKey = apiKey]]

NoData == [status |-> "<None>", hasArticles |-> FALSE, articles |-> <<>>, sources |-> <<>>]

KeysOf(c) == {c[i].key : i \in 1..Len(c)}

\* _make_request with the status test left out: whatever JSON object the
\* GET returns is stored and returned.
MakeRequestMutantCachesFailure(c, t, apiKey, endpoint, params, outcome, body, dt) ==
    LET key == RequestKey(endpoint, params, apiKey)
        got == IF outcome = "ok" THEN body ELSE [body EXCEPT !.status = "error"]
    IN  IF CacheContains(c, key, t)
        THEN LET g == CacheGetItem(c, key, t + dt)
             IN  [cache |-> g.cache, now |-> t + dt, raised |-> g.raised,
                  data |-> IF g.raised THEN NoData ELSE g.val,
                  gets |-> 0, ok |-> FALSE, evicted |-> {}, key |-> key]
        ELSE IF outcome \in {"ok", "api_error"}
        THEN LET stored == NewsCacheSet(c, key, got, t + dt)
             IN  [cache |-> stored, now |-> t + dt, raised |-> FALSE, data |-> got,
                  gets |-> 1, ok |-> (outcome = "ok"), key |-> key,
                  evicted |-> KeysOf(SelectLive(c, t + dt)) \ KeysOf(stored)]
        ELSE [cache |-> c, now |-> t + dt, raised |-> (outcome = "non_object"),
              data |-> NoData, gets |-> 1, ok |-> FALSE, evicted |-> {}, key |-> key]

\* NewsAPIClient._make_request from instant t.  outcome is what the GET
\* does: "ok" (2xx, JSON body with status 'ok'), "api_error" (2xx, JSON body
\* with another status), or a requests.exceptions.RequestException
\* ("http_error" from raise_for_status, "network", "timeout", "bad_json"
\* from response.json()), or "non_object" (2xx, a JSON body that is not an
\* object, on which data.get raises AttributeError, which the except clause
\* does not catch).  body is the body of an "ok" response.  dt is the time
\* that passes after the `cache_key in news_cache` test.
MakeRequest(c, t, apiKey, endpoint, params, outcome, body, dt) ==
    LET key == RequestKey(endpoint, params, apiKey)
    IN  IF CacheContains(c, key, t)
        THEN LET g == CacheGetItem(c, key, t + dt)
             IN  [cache |-> g.cache, now |-> t + dt, raised |-> g.raised,
                  data |-> IF g.raised THEN NoData ELSE g.val,
                  gets |-> 0, ok |-> FALSE, evicted |-> {}, key |-> key]
        ELSE IF outcome = "ok"
        THEN LET stored == NewsCacheSet(c, key, body, t + dt)
             IN  [cache |-> stored, now |-> t + dt, raised |-> FALSE, data |-> body,
                  gets |-> 1, ok |-> TRUE, key |-> key,
                  evicted |-> KeysOf(SelectLive(c, t + dt)) \ KeysOf(stored)]
        ELSE [cache |-> c, now |-> t + dt, raised |-> (outcome = "non_object"),
              data |-> NoData, gets |-> 1, ok |-> FALSE, evicted |-> {}, key |-> key]

\* The number of outbound GETs in a run: enough to fill the cache, evict an
\* entry and fetch it again.
MaxGets == 4

\* NewsAPIClient(api_key=passed), by a caller
NewClient(passed) ==
    /\ pc = "idle"
    /\ \E r \in {NewsAPIClientInit(passed, configKey)} :
        /\ clients' = IF r.raised THEN clients ELSE clients \cup {r.api_key}
        /\ ret' = [op |-> "NewsAPIClient", passed |-> passed,
                   raised |-> r.raised]
    /\ UNCHANGED <<db, connections, clock, nlpCache, newsCache, ghostVars, enrichVars, configKey,
                   news_api, httpGets, watchVars>>

\* The record of the watched filter set's calls, after a request r made at
\* instant t by get_top_headlines (isWatched: with the watched filter set).
\* A call is remembered with its time, whether it issued a GET, whether the
\* response was cached, and whether its cache entry was since evicted for
\* capacity.
WatchAfter(isWatched, watchedKey, t, r) ==
    /\ lastCall' = IF isWatched
                   THEN [at |-> t, gets |-> r.gets, ok |-> r.ok, evicted |-> FALSE]
                   ELSE lastCall
    /\ lastFetch' = IF isWatched /\ r.gets = 1
                    THEN [at |-> t, gets |-> r.gets, ok |-> r.ok, evicted |-> FALSE]
                    ELSE IF watchedKey \in r.evicted
                         THEN [lastFetch EXCEPT !.evicted = TRUE]
                         ELSE lastFetch
    /\ UNCHANGED watched

\* The part common to get_top_headlines and search_everything: the request,
\* then enrich_articles on response['articles'] or return [].
FetchArticles(op, apiKey, filt, endpoint, params, outcome, body, dt) ==
    /\ pc = "idle"
    /\ apiKey \in clients
    /\ httpGets < MaxGets
    /\ clock + dt <= Horizon
    /\ \E r \in {MakeRequest(newsCache, clock, apiKey, endpoint, params, outcome, body, dt)} :
        /\ newsCache' = r.cache
        /\ clock' = r.now
        /\ httpGets' = httpGets + r.gets
        /\ WatchAfter(op = "get_top_headlines" /\ filt = watched,
                      RequestKey("", HeadlinesParams(watched), apiKey), clock, r)
        /\ ret' = [op |-> IF ~r.raised /\ r.data.status # "<None>" /\ r.data.hasArticles
                          THEN "enrich_start" ELSE op,
                   caller |-> op, isWatched |-> (op = "get_top_headlines" /\ filt = watched),
                   at |-> clock, gets |-> r.gets,
                   articles |-> r.data.articles, raised |-> r.raised, val |-> <<>>,
                   failedRequest |-> (r.gets = 1 /\ ~r.ok), key |-> r.key,
                   before |-> IF op = "get_top_headlines" /\ filt = watched
                              THEN lastCall ELSE NoCall,
                   fetchedBefore |-> IF op = "get_top_headlines" /\ filt = watched
                                     THEN lastFetch ELSE NoCall]
        /\ IF ~r.raised /\ r.data.status # "<None>" /\ r.data.hasArticles
           THEN /\ pc' = "enrich"
                /\ pending' = r.data.articles
                /\ enriched' = <<>>
           ELSE UNCHANGED enrichVars
    /\ UNCHANGED <<db, connections, nlpCache, ghostVars, configKey, news_api, clients>>

\* client.get_top_headlines(country, category, q, page_size, page)
GetTopHeadlines(apiKey, filt, outcome, body, dt) ==
    FetchArticles("get_top_headlines", apiKey, filt, "", HeadlinesParams(filt),
                  outcome, body, dt)

\* client.search_everything(q, from_date, to_date, language, sort_by, page_size, page)
SearchEverything(apiKey, filt, outcome, body, dt) ==
    FetchArticles("search_everything", apiKey, filt, "/everything", SearchParams(filt),
                  outcome, body, dt)

\* client.get_sources(category, language, country)
GetSources(apiKey, filt, outcome, body, dt) ==
    /\ pc = "idle"
    /\ apiKey \in clients
    /\ httpGets < MaxGets
    /\ clock + dt <= Horizon
    /\ \E r \in {MakeRequest(newsCache, clock, apiKey, "/sources", SourcesParams(filt),
                             outcome, body, dt)} :
        /\ newsCache' = r.cache
        /\ clock' = r.now
        /\ httpGets' = httpGets + r.gets
        /\ WatchAfter(FALSE, RequestKey("", HeadlinesParams(watched), apiKey), clock, r)
        /\ ret' = [op |-> "get_sources", raised |-> r.raised,
                   val |-> IF r.raised \/ r.data.status = "<None>" THEN <<>>
                           ELSE r.data.sources,
                   failedRequest |-> (r.gets = 1 /\ ~r.ok), key |-> r.key]
    /\ UNCHANGED <<db, connections, nlpCache, ghostVars, enrichVars, configKey, news_api, clients>>

\* ---------------------------------------------------------------- inputs
HeadlineFilter(country, page_size) ==
    [country |-> country, category |-> "<None>", q |-> "", page_size |-> page_size,
     page |-> 1]
HeadlineFilters ==
    {HeadlineFilter("us", 150), HeadlineFilter("us", 100), HeadlineFilter("<None>", 20)}
WatchedFilter == HeadlineFilter("us", 150)
SearchFilters ==
    [q : {"ai"}, from_date : {"<None>"}, to_date : {"<None>"}, language : {"en"},
     sort_by : {"publishedAt"}, page_size : {20}, page : {1}]
SourceFilters == [category : {"<None>"}, language : {"en"}, country : {"<None>"}]

DictArticle == CHOOSE a \in ArticlePool : a.kind = "dict" /\ a.url # 0
ArticlesBody ==
    [status |-> "ok", hasArticles |-> TRUE, articles |-> <<DictArticle>>, sources |-> <<>>]
SourcesBody ==
    [status |-> "ok", hasArticles |-> FALSE, articles |-> <<>>, sources |-> <<"bbc-news">>]
OkBodies == {ArticlesBody, SourcesBody}
EmptyBody == [status |-> "ok", hasArticles |-> FALSE, articles |-> <<>>, sources |-> <<>>]
FailedOutcomes ==
    {"api_error", "http_error", "network", "timeout", "bad_json", "non_object"}
PassedKeys == {"<None>", "", "key"}
\* The external models during the enrichment of a response.
NewsExtOutcomes == {x \in ExtOutcomes : x.pol = 0 /\ x.fails = "none"}

\* The module as imported with an API key configured.
InitNews ==
    /\ InitCommon
    /\ underTest = "news"
    /\ configKey = "key"
    /\ news_api = ModuleNewsApi(configKey)
    /\ clients = {news_api.api_key}
    /\ watched = WatchedFilter

\* Calls on the module-level client; the calls of get_top_headlines with
\* the watched filter set are recorded.
NextNews ==
    \/ Tick
    \/ \E f \in HeadlineFilters, dt \in Slips :
          GetTopHeadlines(news_api.api_key, f, "ok", ArticlesBody, dt)
    \/ \E f \in HeadlineFilters, o \in {"api_error", "timeout"} :
          GetTopHeadlines(news_api.api_key, f, o, EmptyBody, 0)
    \/ \E f \in SearchFilters : SearchEverything(news_api.api_key, f, "ok", ArticlesBody, 0)
    \/ \E f \in SourceFilters : GetSources(news_api.api_key, f, "ok", SourcesBody, 0)
    \/ \E ext \in NewsExtOutcomes : EnrichDict(ext, NoSlips)
    \/ EnrichReturn

SpecNews == InitNews /\ [][NextNews]_vars

\* A call of get_top_headlines with the watched filter set, as recorded in ret.
WatchedCall ==
    /\ ret.op \in {"get_top_headlines", "enrich_start"}
    /\ ret.caller = "get_top_headlines"
    /\ ret.isWatched

\* C1 (as claimed): of two calls of get_top_headlines with the same filter
\* set, the second made within 1800 seconds of the first, exactly one
\* issues an outbound GET.
C1_ExactlyOneGet ==
    (WatchedCall /\ ret.before.at >= 0 /\ ret.at < ret.before.at + NewsTtl)
        => ret.before.gets + ret.gets = 1

\* C1 (amended): when a call of get_top_headlines issued a GET whose
\* response had status 'ok', a later call with the same filter set and API
\* key, made less than 1800 seconds after it and with the cached response
\* not evicted for capacity in between, issues no GET, so that the two
\* calls cause exactly one GET in total.
C1_OneGetWhenFirstCached ==
    (WatchedCall /\ ret.fetchedBefore.at >= 0 /\ ret.fetchedBefore.ok
       /\ ~ret.fetchedBefore.evicted
       /\ ret.at < ret.fetchedBefore.at + NewsTtl)
        => (ret.fetchedBefore.gets = 1 /\ ret.gets = 0)

\* A second call, later than the first and inside the TTL, was answered
\* from the cache and has returned its enriched articles.
C1_Witness ==
    /\ WatchedCall /\ ret.op = "get_top_headlines"
    /\ ret.fetchedBefore.at >= 0 /\ ret.fetchedBefore.ok /\ ~ret.fetchedBefore.evicted
    /\ ret.at > ret.fetchedBefore.at /\ ret.at < ret.fetchedBefore.at + NewsTtl
    /\ ret.gets = 0 /\ ~ret.raised /\ Len(ret.val) = 1

\* The module as imported, with or without an API key configured.
InitClient ==
    /\ InitCommon
    /\ underTest = "news"
    /\ configKey \in {"<None>", "", "key"}
    /\ news_api = ModuleNewsApi(configKey)
    /\ clients = IF news_api.client THEN {news_api.api_key} ELSE {}
    /\ watched = NoFilter

\* Construction of clients and every call on the clients that exist, with
\* every outcome of the outbound request.
NextClient ==
    \/ Tick
    \/ \E passed \in PassedKeys : NewClient(passed)
    \/ \E k \in clients, f \in {WatchedFilter}, b \in OkBodies, dt \in Slips :
          GetTopHeadlines(k, f, "ok", b, dt)
    \/ \E k \in clients, f \in {WatchedFilter}, o \in FailedOutcomes :
          GetTopHeadlines(k, f, o, EmptyBody, 0)
    \/ \E k \in clients, f \in SearchFilters :
          SearchEverything(k, f, "ok", ArticlesBody, 0)
    \/ \E k \in clients, f \in SearchFilters, o \in FailedOutcomes :
          SearchEverything(k, f, o, EmptyBody, 0)
    \/ \E k \in clients, f \in SourceFilters, dt \in Slips :
          GetSources(k, f, "ok", SourcesBody, dt)
    \/ \E k \in clients, f \in SourceFilters, o \in FailedOutcomes :
          GetSources(k, f, o, EmptyBody, 0)
    \/ \E ext \in NewsExtOutcomes : EnrichDict(ext, NoSlips)
    \/ EnrichReturn

SpecClient == InitClient /\ [][NextClient]_vars

\* C8 (as claimed): a call of get_top_headlines, search_everything or
\* get_sources whose outbound request fails returns an empty list and
\* raises nothing.
C8_FailedRequestEmptyList ==
    (ret.op \in {"get_top_headlines", "search_everything", "get_sources"}
       /\ ret.failedRequest)
        => (~ret.raised /\ ret.val = <<>>)

\* C10: with no API key in Config, the module-level news_api is None, a
\* construction that passes no key raises ValueError, and as long as no
\* caller has constructed a client with a key of its own no GET is issued
\* and the news cache stays empty.
C10_NoKeyNoClient ==
    ~Truthy(configKey) =>
        /\ news_api = NoClient
        /\ (ret.op = "NewsAPIClient" /\ ~Truthy(ret.passed)) => ret.raised
        /\ clients = {} => (httpGets = 0 /\ newsCache = <<>>)

\* A construction without any key has raised, time has passed, and no
\* client exists.
C10_Witness ==
    /\ ~Truthy(configKey) /\ news_api = NoClient
    /\ ret.op = "NewsAPIClient" /\ ~Truthy(ret.passed) /\ ret.raised
    /\ clients = {} /\ clock > 0 /\ httpGets = 0

\* The calls that go through _make_request.
RequestOps == {"get_top_headlines", "search_everything", "get_sources", "enrich_start"}

\* The entries of a news cache, whatever their order of use.
EntriesOf(c) == {c[i] : i \in 1..Len(c)}

\* C15: only successful responses enter the news cache.  Every entry holds
\* a body whose status is 'ok'; an entry appears or changes only in a call
\* that issued one GET which succeeded; a call whose request failed leaves
\* the cache as it was, and afterwards the cache still has no live entry
\* under that call's key, so that an identical call issues a request again.
C15_OnlySuccessCached ==
    /\ [](/\ \A e \in EntriesOf(newsCache) : e.val.status = "ok"
          /\ (ret.op \in RequestOps /\ ret.failedRequest)
                => ~CacheContains(newsCache, ret.key, clock))
    /\ [][/\ (EntriesOf(newsCache') \ EntriesOf(newsCache) # {})
               => /\ httpGets' = httpGets + 1
                  /\ ret'.op \in RequestOps /\ ~ret'.failedRequest
          /\ (httpGets' = httpGets + 1 /\ ret'.failedRequest)
               => newsCache' = newsCache]_vars

\* A request has failed under a key while the cache held live entries of
\* earlier successful requests, and after an earlier request was made.
C15_Witness ==
    /\ ret.op \in RequestOps /\ ret.failedRequest /\ ~ret.raised
    /\ httpGets >= 2
    /\ newsCache # <<>>
    /\ \E e \in EntriesOf(newsCache) : clock < e.expires
    /\ ~HasKey(newsCache, ret.key)

\* ============================================================ Persistence
\* The outcome of one statement: the database after it, the sqlite3 error
\* raised ("none": no error) and the rows fetched.
Done(d, rows) == [db |-> d, raised |-> "none", rows |-> rows]
Failed(d, error) == [db |-> d, raised |-> error, rows |-> <<>>]

\* DatabaseManager.execute_query: the statement runs and is committed; on
\* sqlite3.Error the transaction is rolled back and the error re-raised.
\* fault: the database fails on this statement (sqlite3.OperationalError).
ExecuteQuery(d, fault, effect) ==
    IF fault THEN Failed(d, "OperationalError")
    ELSE IF effect.raised # "none" THEN Failed(d, effect.raised)
    ELSE effect

\* DatabaseManager.get_connection: sqlite3.connect opens one connection.
GetConnection(n) == n + 1

\* conn.close()
ConnClose(n) == n - 1

\* DatabaseManager.execute_query on the connections: it opens one, and its
\* finally clause closes it whether the statement was committed or rolled
\* back and re-raised.
ExecuteQueryConn(n) == ConnClose(GetConnection(n))

\* INSERT INTO users (username, password): the table gives the row the next
\* id and rejects a username it already holds (sqlite3.IntegrityError).
UsersInsert(d, username, password) ==
    IF \E i \in 1..Len(d.users) : d.users[i].username = username
    THEN Failed(d, "IntegrityError")
    ELSE Done([d EXCEPT !.users = Append(@, [id |-> Len(@) + 1, username |-> username,
                                             password |-> password])], <<>>)

\* SELECT id FROM users WHERE username = ?
UsersSelectId(d, username) ==
    Done(d, SelectSeq(d.users, LAMBDA r : r.username = username))

CreateUserOpMutantNoCatch(d, username, password, fault) ==
    LET ins == ExecuteQuery(d, fault = "insert", UsersInsert(d, username, password))
    IN  IF ins.raised # "none" THEN [db |-> ins.db, raised |-> ins.raised, val |-> NoneInt]
        ELSE LET sel == ExecuteQuery(ins.db, fault = "select", UsersSelectId(ins.db, username))
             IN  IF sel.raised # "none"
                 THEN [db |-> sel.db, raised |-> sel.raised, val |-> NoneInt]
                 ELSE [db |-> sel.db, raised |-> "none",
                       val |-> IF sel.rows # <<>> THEN sel.rows[1].id ELSE NoneInt]

\* DatabaseManager.create_user(username, password): the INSERT, then the
\* SELECT of the id; sqlite3.IntegrityError is caught and None returned,
\* any other sqlite3.Error propagates.  fault: the statement on which the
\* database fails ("none", "insert", "select").
CreateUserOp(d, username, password, fault) ==
    LET ins == ExecuteQuery(d, fault = "insert", UsersInsert(d, username, password))
    IN  IF ins.raised = "IntegrityError"
        THEN [db |-> ins.db, raised |-> "none", val |-> NoneInt]
        ELSE IF ins.raised # "none"
        THEN [db |-> ins.db, raised |-> ins.raised, val |-> NoneInt]
        ELSE LET sel == ExecuteQuery(ins.db, fault = "select", UsersSelectId(ins.db, username))
             IN  IF sel.raised # "none"
                 THEN [db |-> sel.db, raised |-> sel.raised, val |-> NoneInt]
                 ELSE [db |-> sel.db, raised |-> "none",
                       val |-> IF sel.rows # <<>> THEN sel.rows[1].id ELSE NoneInt]

\* DatabaseManager.verify_user(username, password)
VerifyUserOp(d, username, password, fault) ==
    LET sel == ExecuteQuery(d, fault, Done(d, SelectSeq(d.users,
                   LAMBDA r : r.username = username /\ r.password = password)))
    IN  [db |-> sel.db, raised |-> sel.raised, val |-> sel.rows # <<>>]

NoUser == [isNone |-> TRUE, id |-> NoneInt, username |-> "<None>"]

\* DatabaseManager.get_user(username): the row's id and username (created_at
\* is not followed), or None
GetUserOp(d, username, fault) ==
    LET sel == ExecuteQuery(d, fault, Done(d, SelectSeq(d.users,
                   LAMBDA r : r.username = username)))
    IN  [db |-> sel.db, raised |-> sel.raised,
         val |-> IF sel.rows # <<>>
                 THEN [isNone |-> FALSE, id |-> sel.rows[1].id,
                       username |-> sel.rows[1].username]
                 ELSE NoUser]

\* ','.join(items), on strings held as sequences of characters
RECURSIVE Join(_)
Join(items) ==
    IF items = <<>> THEN <<>>
    ELSE IF Len(items) = 1 THEN items[1]
    ELSE items[1] \o <<",">> \o Join(Tail(items))

\* str.split(','): the pieces between the commas; '' gives [''].
RECURSIVE SplitFrom(_, _)
SplitFrom(str, piece) ==
    IF str = <<>> THEN <<piece>>
    ELSE IF Head(str) = "," THEN <<piece>> \o SplitFrom(Tail(str), <<>>)
    ELSE SplitFrom(Tail(str), Append(piece, Head(str)))
Split(str) == SplitFrom(str, <<>>)

NoPreferences == [isNone |-> TRUE, categories |-> <<>>, countries |-> <<>>,
                  language |-> "<None>", sentiment |-> "<None>"]

\* DatabaseManager.get_user_preferences(user_id): None without a row; the
\* list columns are split on ',' when truthy and [] otherwise.
GetUserPreferencesOp(d, user_id, fault) ==
    LET row == d.prefs[user_id]
        sel == ExecuteQuery(d, fault, Done(d, IF row.exists THEN <<row>> ELSE <<>>))
    IN  [db |-> sel.db, raised |-> sel.raised,
         val |-> IF sel.rows # <<>>
                 THEN [isNone |-> FALSE,
                       categories |-> IF sel.rows[1].categories # <<>>
                                      THEN Split(sel.rows[1].categories) ELSE <<>>,
                       countries |-> IF sel.rows[1].countries # <<>>
                                     THEN Split(sel.rows[1].countries) ELSE <<>>,
                       language |-> sel.rows[1].language,
                       sentiment |-> sel.rows[1].sentiment]
                 ELSE NoPreferences]

\* DatabaseManager.update_user_preferences(user_id, preferences): an UPDATE
\* of the rows WHERE user_id = ?, which changes nothing when there is no
\* such row; True unless an exception was caught.
UpdateUserPreferencesOp(d, user_id, preferences, fault) ==
    LET row == [exists |-> TRUE, categories |-> Join(preferences.categories),
                countries |-> Join(preferences.countries),
                language |-> preferences.language, sentiment |-> preferences.sentiment]
        upd == ExecuteQuery(d, fault,
                   Done(IF d.prefs[user_id].exists
                        THEN [d EXCEPT !.prefs[user_id] = row] ELSE d, <<>>))
    IN  [db |-> upd.db, raised |-> "none", val |-> upd.raised = "none"]

\* INSERT INTO article_feedback (user_id, article_url, feedback, rating)
FeedbackInsert(d, user_id, article_url, feedback, rating) ==
    Done([d EXCEPT !.feedback = Append(@, [user_id |-> user_id, article_url |-> article_url,
                                           feedback |-> feedback, rating |-> rating])], <<>>)

\* DatabaseManager.add_article_feedback(user_id, article_url, feedback, rating)
AddArticleFeedbackOp(d, user_id, article_url, feedback, rating, fault) ==
    LET ins == ExecuteQuery(d, fault, FeedbackInsert(d, user_id, article_url, feedback, rating))
    IN  [db |-> ins.db, raised |-> "none", val |-> ins.raised = "none"]

\* SUM(CASE WHEN feedback = label THEN 1 ELSE 0 END): NULL over no rows.
SqlSumCase(rows, label) ==
    IF rows = <<>> THEN NoneInt
    ELSE Cardinality({i \in 1..Len(rows) : rows[i].feedback = label})

RECURSIVE SumRatings(_)
SumRatings(rows) ==
    IF rows = <<>> THEN 0
    ELSE (IF Head(rows).rating = NoneInt THEN 0 ELSE Head(rows).rating)
           + SumRatings(Tail(rows))

NoneRating == [isNone |-> TRUE, num |-> 0, den |-> 1]

\* AVG(rating): the mean of the non-NULL ratings, as a fraction; NULL when
\* there is none.
SqlAvg(rows) ==
    LET rated == SelectSeq(rows, LAMBDA r : r.rating # NoneInt)
    IN  IF rated = <<>> THEN NoneRating
        ELSE [isNone |-> FALSE, num |-> SumRatings(rated), den |-> Len(rated)]

\* The aggregate SELECT of get_article_feedback: always exactly one row.
FeedbackAggregate(d, article_url) ==
    LET rows == SelectSeq(d.feedback, LAMBDA r : r.article_url = article_url)
    IN  Done(d, << [total_feedback |-> Len(rows), avg_rating |-> SqlAvg(rows),
                    helpful_count |-> SqlSumCase(rows, "Helpful"),
                    not_helpful_count |-> SqlSumCase(rows, "Not Helpful")] >>)

\* DatabaseManager.get_article_feedback(article_url): the aggregate row as
\* a dict, average_rating being None when the average is falsy; the dict of
\* zeros when the query gave no row.
GetArticleFeedbackOp(d, article_url, fault) ==
    LET sel == ExecuteQuery(d, fault, FeedbackAggregate(d, article_url))
    IN  [db |-> sel.db, raised |-> sel.raised,
         val |-> IF sel.rows # <<>>
                 THEN [total_feedback |-> sel.rows[1].total_feedback,
                       average_rating |->
                           IF ~sel.rows[1].avg_rating.isNone /\ sel.rows[1].avg_rating.num # 0
                           THEN sel.rows[1].avg_rating ELSE NoneRating,
                       helpful_count |-> sel.rows[1].helpful_count,
                       not_helpful_count |-> sel.rows[1].not_helpful_count]
                 ELSE [total_feedback |-> 0, average_rating |-> NoneRating,
                       helpful_count |-> 0, not_helpful_count |-> 0]]

\* INSERT INTO reading_history (user_id, article_url, title, category)
HistoryInsert(d, user_id, article_data) ==
    Done([d EXCEPT !.history = Append(@, [user_id |-> user_id,
                                          article_url |-> article_data.url,
                                          title |-> article_data.title,
                                          category |-> article_data.category])], <<>>)

AddReadingHistoryOpMutantReplace(d, user_id, article_data, fault) ==
    LET kept == [d EXCEPT !.history = SelectSeq(@, LAMBDA r :
                     ~(r.user_id = user_id /\ r.article_url = article_data.url))]
    IN  IF ~article_data.hasUrl \/ fault
        THEN [db |-> d, raised |-> "none", val |-> FALSE]
        ELSE [db |-> HistoryInsert(kept, user_id, article_data).db, raised |-> "none",
              val |-> TRUE]

\* DatabaseManager.add_reading_history(user_id, article_data): False when
\* article_data has no 'url' (KeyError) or the INSERT fails, True otherwise.
AddReadingHistoryOp(d, user_id, article_data, fault) ==
    IF ~article_data.hasUrl
    THEN [db |-> d, raised |-> "none", val |-> FALSE]
    ELSE LET ins == ExecuteQuery(d, fault, HistoryInsert(d, user_id, article_data))
         IN  [db |-> ins.db, raised |-> "none", val |-> ins.raised = "none"]

RECURSIVE Reverse(_)
Reverse(sq) == IF sq = <<>> THEN <<>> ELSE Append(Reverse(Tail(sq)), Head(sq))

DefaultHistoryLimit == 50

\* DatabaseManager.get_reading_history(user_id, limit): the user's rows,
\* latest first (rows are stamped in the order they are inserted), at most
\* limit of them.
GetReadingHistoryOp(d, user_id, limit, fault) ==
    LET sel == ExecuteQuery(d, fault, Done(d,
                   Take(Reverse(SelectSeq(d.history, LAMBDA r : r.user_id = user_id)),
                        limit)))
    IN  [db |-> sel.db, raised |-> sel.raised, val |-> sel.rows]

\* INSERT OR REPLACE INTO article_cache (url, ...): the table keeps one row
\* per url and stamps the row with the time of the statement (cached_at).
ArticleCacheUpsert(d, url, data, now) ==
    Done([d EXCEPT !.article_cache =
              SelectSeq(@, LAMBDA r : r.url # url)
                \o <<[url |-> url, data |-> data, cached_at |-> now]>>], <<>>)

\* DatabaseManager.cache_article(url, data) at time now
CacheArticleOp(d, url, data, now, fault) ==
    LET ins == ExecuteQuery(d, fault, ArticleCacheUpsert(d, url, data, now))
    IN  [db |-> ins.db, raised |-> "none", val |-> ins.raised = "none"]

NoArticle == [isNone |-> TRUE, data |-> "<None>", cached_at |-> 0]

\* DatabaseManager.get_cached_article(url) at time now: the row of url
\* WHERE cached_at > datetime('now', '-24 hours'), or None
GetCachedArticleOp(d, url, now, fault) ==
    LET sel == ExecuteQuery(d, fault, Done(d, SelectSeq(d.article_cache,
                   LAMBDA r : r.url = url /\ r.cached_at > now - ArticleMaxAge)))
    IN  [db |-> sel.db, raised |-> sel.raised,
         val |-> IF sel.rows # <<>>
                 THEN [isNone |-> FALSE, data |-> sel.rows[1].data,
                       cached_at |-> sel.rows[1].cached_at]
                 ELSE NoArticle]

\* DatabaseManager.cleanup_old_cache() at time now: DELETE ... WHERE
\* cached_at < datetime('now', '-24 hours')
CleanupOldCacheOp(d, now, fault) ==
    LET del == ExecuteQuery(d, fault,
                   Done([d EXCEPT !.article_cache =
                            SelectSeq(@, LAMBDA r : ~(r.cached_at < now - ArticleMaxAge))],
                        <<>>))
    IN  [db |-> del.db, raised |-> del.raised]

\* ---------------------------------------------------------------- calls
\* db.create_user(username, password)
CreateUser(username, password, fault) ==
    /\ pc = "idle" /\ underTest = "users"
    /\ Len(db.users) < MaxUsers \/ \E i \in 1..Len(db.users) : db.users[i].username = username
    /\ \E r \in {CreateUserOp(db, username, password, fault)} :
        /\ db' = r.db
        /\ ret' = [op |-> "create_user", username |-> username, password |-> password,
                   fault |-> fault, raised |-> r.raised, val |-> r.val, before |-> db.users]
    /\ connections' = ExecuteQueryConn(ExecuteQueryConn(connections))
    /\ UNCHANGED memoryVars

\* db.verify_user(username, password)
VerifyUser(username, password, fault) ==
    /\ pc = "idle" /\ underTest = "users"
    /\ \E r \in {VerifyUserOp(db, username, password, fault)} :
        /\ db' = r.db
        /\ ret' = [op |-> "verify_user", username |-> username, password |-> password,
                   fault |-> fault, raised |-> r.raised, val |-> r.val]
    /\ connections' = ExecuteQueryConn(connections)
    /\ UNCHANGED memoryVars

\* db.get_user(username)
GetUser(username, fault) ==
    /\ pc = "idle" /\ underTest = "users"
    /\ \E r \in {GetUserOp(db, username, fault)} :
        /\ db' = r.db
        /\ ret' = [op |-> "get_user", username |-> username, fault |-> fault,
                   raised |-> r.raised, val |-> r.val]
    /\ connections' = ExecuteQueryConn(connections)
    /\ UNCHANGED memoryVars

\* db.update_user_preferences(user_id, preferences)
UpdateUserPreferences(user_id, preferences, fault) ==
    /\ pc = "idle" /\ underTest = "user_preferences"
    /\ \E r \in {UpdateUserPreferencesOp(db, user_id, preferences, fault)} :
        /\ db' = r.db
        /\ ret' = [op |-> "update_user_preferences", user_id |-> user_id,
                   preferences |-> preferences, fault |-> fault, raised |-> r.raised,
                   val |-> r.val, hadRow |-> db.prefs[user_id].exists]
    /\ connections' = ExecuteQueryConn(connections)
    /\ UNCHANGED memoryVars

\* db.get_user_preferences(user_id)
GetUserPreferences(user_id, fault) ==
    /\ pc = "idle" /\ underTest = "user_preferences"
    /\ \E r \in {GetUserPreferencesOp(db, user_id, fault)} :
        /\ db' = r.db
        /\ ret' = [op |-> "get_user_preferences", user_id |-> user_id, fault |-> fault,
                   raised |-> r.raised, val |-> r.val,
                   prev |-> IF ret.op = "update_user_preferences" THEN ret ELSE NoPrev]
    /\ connections' = ExecuteQueryConn(connections)
    /\ UNCHANGED memoryVars

\* db.add_article_feedback(user_id, article_url, feedback, rating)
AddArticleFeedback(user_id, article_url, feedback, rating, fault) ==
    /\ pc = "idle" /\ underTest = "article_feedback"
    /\ Len(db.feedback) < MaxFeedback
    /\ \E r \in {AddArticleFeedbackOp(db, user_id, article_url, feedback, rating, fault)} :
        /\ db' = r.db
        /\ ret' = [op |-> "add_article_feedback", fault |-> fault, raised |-> r.raised,
                   val |-> r.val]
    /\ connections' = ExecuteQueryConn(connections)
    /\ UNCHANGED memoryVars

\* db.get_article_feedback(article_url)
GetArticleFeedback(article_url, fault) ==
    /\ pc = "idle" /\ underTest = "article_feedback"
    /\ \E r \in {GetArticleFeedbackOp(db, article_url, fault)} :
        /\ db' = r.db
        /\ ret' = [op |-> "get_article_feedback", article_url |-> article_url,
                   fault |-> fault, raised |-> r.raised, val |-> r.val,
                   rowsForUrl |-> Len(SelectSeq(db.feedback,
                                        LAMBDA x : x.article_url = article_url))]
    /\ connections' = ExecuteQueryConn(connections)
    /\ UNCHANGED memoryVars

\* db.add_reading_history(user_id, article_data)
AddReadingHistory(user_id, article_data, fault) ==
    /\ pc = "idle" /\ underTest = "reading_history"
    /\ Len(db.history) < MaxHistory
    /\ \E r \in {AddReadingHistoryOp(db, user_id, article_data, fault)} :
        /\ db' = r.db
        /\ ret' = [op |-> "add_reading_history", user_id |-> user_id,
                   article_data |-> article_data, fault |-> fault,
                   raised |-> r.raised, val |-> r.val]
    /\ connections' = ExecuteQueryConn(connections)
    /\ UNCHANGED memoryVars

\* db.get_reading_history(user_id, limit)
GetReadingHistory(user_id, limit, fault) ==
    /\ pc = "idle" /\ underTest = "reading_history"
    /\ \E r \in {GetReadingHistoryOp(db, user_id, limit, fault)} :
        /\ db' = r.db
        /\ ret' = [op |-> "get_reading_history", user_id |-> user_id, limit |-> limit,
                   fault |-> fault, raised |-> r.raised, val |-> r.val]
    /\ connections' = ExecuteQueryConn(connections)
    /\ UNCHANGED memoryVars

\* What the analytics functions return: {} or a dict of figures.
NoFigures == "{}"
Figures == "figures"

\* NewsAnalytics.create_user_reading_patterns(user_id): the figures of the
\* user's reading history; {} when the history is empty or anything raised.
CreateUserReadingPatternsOp(d, user_id, fault) ==
    LET h == GetReadingHistoryOp(d, user_id, DefaultHistoryLimit, fault)
    IN  [db |-> h.db, raised |-> "none",
         val |-> IF h.raised # "none" \/ h.val = <<>> THEN NoFigures ELSE Figures]

\* analytics.create_user_reading_patterns(user_id)
CreateUserReadingPatterns(user_id, fault) ==
    /\ pc = "idle" /\ underTest = "reading_history"
    /\ \E r \in {CreateUserReadingPatternsOp(db, user_id, fault)} :
        /\ db' = r.db
        /\ ret' = [op |-> "create_user_reading_patterns", user_id |-> user_id,
                   fault |-> fault, raised |-> r.raised, val |-> r.val]
    /\ connections' = ExecuteQueryConn(connections)
    /\ UNCHANGED memoryVars

\* The connections that a process may hold open at once in the model.
MaxLeaks == 2

\* NewsAnalytics.create_feedback_analysis(user_id) with n connections open:
\* it opens a connection of its own, reads the user's feedback rows with
\* pd.read_sql_query and closes the connection on the line after the read.
\* When the read raises (fault), that line is skipped: the except clause
\* returns {} and nothing closes the connection, unless the interpreter
\* reclaims the unreferenced object at once (reclaimed).
CreateFeedbackAnalysisOp(d, n, user_id, fault, reclaimed) ==
    LET opened == GetConnection(n)
        rows == SelectSeq(d.feedback, LAMBDA r : r.user_id = user_id)
    IN  IF fault
        THEN [db |-> d, raised |-> "none", val |-> NoFigures,
              connections |-> IF reclaimed THEN ConnClose(opened) ELSE opened]
        ELSE [db |-> d, raised |-> "none",
              val |-> IF rows = <<>> THEN NoFigures ELSE Figures,
              connections |-> ConnClose(opened)]

\* analytics.create_feedback_analysis(user_id)
CreateFeedbackAnalysis(user_id, fault, reclaimed) ==
    /\ pc = "idle" /\ underTest = "article_feedback"
    /\ connections < MaxLeaks
    /\ \E r \in {CreateFeedbackAnalysisOp(db, connections, user_id, fault, reclaimed)} :
        /\ db' = r.db
        /\ connections' = r.connections
        /\ ret' = [op |-> "create_feedback_analysis", user_id |-> user_id,
                   fault |-> fault, raised |-> r.raised, val |-> r.val,
                   openBefore |-> connections]
    /\ UNCHANGED memoryVars

\* db.cache_article(url, data)
CacheArticle(url, data, fault) ==
    /\ pc = "idle" /\ underTest = "article_cache"
    /\ \E r \in {CacheArticleOp(db, url, data, clock, fault)} :
        /\ db' = r.db
        /\ ret' = [op |-> "cache_article", url |-> url, fault |-> fault,
                   raised |-> r.raised, val |-> r.val]
    /\ connections' = ExecuteQueryConn(connections)
    /\ UNCHANGED memoryVars

\* db.get_cached_article(url)
GetCachedArticle(url, fault) ==
    /\ pc = "idle" /\ underTest = "article_cache"
    /\ \E r \in {GetCachedArticleOp(db, url, clock, fault)} :
        /\ db' = r.db
        /\ ret' = [op |-> "get_cached_article", url |-> url, fault |-> fault,
                   raised |-> r.raised, val |-> r.val]
    /\ connections' = ExecuteQueryConn(connections)
    /\ UNCHANGED memoryVars

\* db.cleanup_old_cache()
CleanupOldCache(fault) ==
    /\ pc = "idle" /\ underTest = "article_cache"
    /\ \E r \in {CleanupOldCacheOp(db, clock, fault)} :
        /\ db' = r.db
        /\ ret' = [op |-> "cleanup_old_cache", fault |-> fault, raised |-> r.raised,
                   before |-> db.article_cache]
    /\ connections' = ExecuteQueryConn(connections)
    /\ UNCHANGED memoryVars

\* Time passes between two calls of the store; the model follows the time
\* of day for article_cache only.
StoreTick ==
    /\ underTest = "article_cache"
    /\ Tick

\* ---------------------------------------------------------------- inputs
Usernames == {"alice", "bob"}
Passwords == {"pw", "pw2"}
Urls == {"url1", "url2"}
\* The user who gives feedback.
FeedbackUser == CHOOSE u \in UserIds : TRUE
FeedbackLabels == {"Helpful", "Not Helpful"}
Ratings == {NoneInt, 0, 4}
\* Lists of strings, each string a sequence of characters: [], ['a'],
\* ['a', 'b'], ['a,b'] and [''].
StringLists ==
    {<<>>, << <<"a">> >>, << <<"a">>, <<"b">> >>, << <<"a", ",", "b">> >>, << <<>> >>}
PreferencesInputs ==
    [categories : StringLists, countries : {<< <<"u", "s">> >>},
     language : {"en"}, sentiment : {"all"}]
\* A row of user_preferences written before the run.
ArticleData == {"d1", "d2"}
\* The article_data dicts given to add_reading_history: with a url, or
\* without the 'url' key.
HistoryData ==
    [hasUrl : {TRUE}, url : Urls, title : {"t"}, category : {"tech"}]
      \cup [hasUrl : {FALSE}, url : {"<missing>"}, title : {"t"}, category : {"tech"}]
HistoryLimits == {1, DefaultHistoryLimit}
\* A row of article_cache written one timer step before the run.
StoredArticle == [url |-> "url1", data |-> "d1", cached_at |-> 0 - Step]
StoredRow == [exists |-> TRUE, categories |-> <<"a">>, countries |-> <<"u", "s">>,
              language |-> "en", sentiment |-> "all"]

\* A database whose users and article_feedback tables are empty, with or
\* without rows in user_preferences (no code of src inserts them); a run
\* works on one table.
InitDb ==
    /\ InitMemory
    /\ InitNoKey
    /\ connections = 0
    /\ underTest \in {"users", "user_preferences", "article_feedback", "article_cache",
                      "reading_history"}
    /\ db \in {[EmptyDb EXCEPT !.prefs = rows, !.article_cache = cached] :
                  rows \in IF underTest = "user_preferences"
                           THEN [UserIds -> {NoRow, StoredRow}]
                           ELSE {EmptyDb.prefs},
                  cached \in IF underTest = "article_cache"
                             THEN {<<>>, <<StoredArticle>>}
                             ELSE {<<>>}}

NextDb ==
    \/ \E u \in Usernames, p \in Passwords, fault \in {"none", "insert", "select"} :
          CreateUser(u, p, fault)
    \/ \E u \in Usernames, p \in Passwords, fault \in BOOLEAN : VerifyUser(u, p, fault)
    \/ \E u \in Usernames, fault \in BOOLEAN : GetUser(u, fault)
    \/ \E u \in UserIds, p \in PreferencesInputs, fault \in BOOLEAN :
          UpdateUserPreferences(u, p, fault)
    \/ \E u \in UserIds, fault \in BOOLEAN : GetUserPreferences(u, fault)
    \/ \E u \in {FeedbackUser}, a \in Urls, f \in FeedbackLabels, r \in Ratings,
          fault \in BOOLEAN :
          AddArticleFeedback(u, a, f, r, fault)
    \/ \E a \in Urls, fault \in BOOLEAN : GetArticleFeedback(a, fault)
    \/ \E a \in Urls, x \in ArticleData, fault \in BOOLEAN : CacheArticle(a, x, fault)
    \/ \E a \in Urls, fault \in BOOLEAN : GetCachedArticle(a, fault)
    \/ \E fault \in BOOLEAN : CleanupOldCache(fault)
    \/ StoreTick
    \/ \E u \in UserIds, x \in HistoryData, fault \in BOOLEAN : AddReadingHistory(u, x, fault)
    \/ \E u \in UserIds, n \in HistoryLimits, fault \in BOOLEAN :
          GetReadingHistory(u, n, fault)
    \/ \E u \in UserIds, fault \in BOOLEAN : CreateUserReadingPatterns(u, fault)
    \/ \E u \in {FeedbackUser}, fault \in BOOLEAN, reclaimed \in BOOLEAN :
          CreateFeedbackAnalysis(u, fault, reclaimed)

SpecDb == InitDb /\ [][NextDb]_vars

\* C3 (as claimed): get_article_feedback of an article_url without rows in
\* article_feedback returns total_feedback 0, average_rating None,
\* helpful_count 0 and not_helpful_count 0.
C3_NoFeedbackZeros ==
    (ret.op = "get_article_feedback" /\ ret.raised = "none" /\ ret.rowsForUrl = 0)
        => ret.val = [total_feedback |-> 0, average_rating |-> NoneRating,
                      helpful_count |-> 0, not_helpful_count |-> 0]

\* C4: create_user with a username that already has a row returns None and
\* raises nothing, leaves the users table as it was (one row for the
\* username, with its id and password), so that verify_user still accepts
\* the original password and rejects every other one.
C4_DuplicateRejected ==
    (ret.op = "create_user" /\ ret.fault = "none"
       /\ \E i \in 1..Len(ret.before) : ret.before[i].username = ret.username)
        => /\ ret.raised = "none" /\ ret.val = NoneInt
           /\ db.users = ret.before
           /\ Cardinality({i \in 1..Len(db.users) :
                              db.users[i].username = ret.username}) = 1
           /\ \A i \in 1..Len(ret.before) :
                 ret.before[i].username = ret.username =>
                    /\ db.users[i].id = ret.before[i].id
                    /\ \A p \in Passwords :
                          VerifyUserOp(db, ret.username, p, FALSE).val
                            = (p = ret.before[i].password)

\* A second create_user for a username, with another password, has returned
\* None while the table holds two users.
C4_Witness ==
    /\ ret.op = "create_user" /\ ret.fault = "none"
    /\ \E i \in 1..Len(ret.before) :
          ret.before[i].username = ret.username /\ ret.before[i].password # ret.password
    /\ ret.val = NoneInt /\ ret.raised = "none"
    /\ Len(db.users) = 2

\* C9 (as claimed): when update_user_preferences(u, p) returns True, the
\* next get_user_preferences(u) returns the categories, countries, language
\* and sentiment of p, whether or not u had a row.
C9_UpsertRoundTrip ==
    (ret.op = "get_user_preferences" /\ ret.raised = "none"
       /\ ret.prev.op = "update_user_preferences" /\ ret.prev.user_id = ret.user_id
       /\ ret.prev.val)
        => /\ ~ret.val.isNone
           /\ ret.val.categories = ret.prev.preferences.categories
           /\ ret.val.countries = ret.prev.preferences.countries
           /\ ret.val.language = ret.prev.preferences.language
           /\ ret.val.sentiment = ret.prev.preferences.sentiment

\* The calls of the store that have run into a database error.
DbErrorDuringCall ==
    \/ ret.op = "create_user" /\ ret.fault # "none"
    \/ /\ ret.op \in {"get_user", "verify_user", "get_user_preferences",
                      "update_user_preferences", "add_article_feedback",
                      "get_article_feedback", "add_reading_history",
                      "get_reading_history", "cache_article", "get_cached_article",
                      "cleanup_old_cache"}
       /\ ret.fault

\* C11 (as claimed): a database error during a call of an accessor of the
\* store is caught inside the accessor; none is raised to its caller.
C11_DbErrorsCaught ==
    DbErrorDuringCall => ret.raised = "none"

\* C12 (as claimed): get_cached_article returns no row cached 24 hours
\* ago or earlier; after cleanup_old_cache every remaining row is one that
\* get_cached_article returns, and the rows younger than 24 hours are the
\* rows that remain, unchanged.
C12_SweepMatchesRead ==
    /\ (ret.op = "get_cached_article" /\ ret.raised = "none" /\ ~ret.val.isNone)
         => clock - ret.val.cached_at < ArticleMaxAge
    /\ (ret.op = "cleanup_old_cache" /\ ret.raised = "none")
         => /\ \A i \in 1..Len(db.article_cache) :
                  ~GetCachedArticleOp(db, db.article_cache[i].url, clock, FALSE).val.isNone
            /\ db.article_cache
                 = SelectSeq(ret.before, LAMBDA r : clock - r.cached_at < ArticleMaxAge)

IsPrefix(a, b) == Len(a) <= Len(b) /\ SubSeq(b, 1, Len(a)) = a

\* An add_reading_history or add_article_feedback call that could not
\* insert its row.
AddFailed(r) == r.fault \/ (r.op = "add_reading_history" /\ ~r.article_data.hasUrl)

\* C13: every step of the store keeps the rows of reading_history and of
\* article_feedback as they are and in place; an add_reading_history or
\* add_article_feedback that succeeds returns True and appends exactly one
\* row, also when the user already has a row for the article, a failed one
\* returns False and adds none, and no other operation changes either table.
C13_AppendOnly ==
    [][ /\ IsPrefix(db.history, db'.history)
        /\ IsPrefix(db.feedback, db'.feedback)
        /\ ret'.op = "add_reading_history" =>
              /\ db'.feedback = db.feedback
              /\ ret'.raised = "none"
              /\ ret'.val = ~AddFailed(ret')
              /\ Len(db'.history) = Len(db.history) + (IF ret'.val THEN 1 ELSE 0)
        /\ ret'.op = "add_article_feedback" =>
              /\ db'.history = db.history
              /\ ret'.raised = "none"
              /\ ret'.val = ~AddFailed(ret')
              /\ Len(db'.feedback) = Len(db.feedback) + (IF ret'.val THEN 1 ELSE 0)
        /\ ret'.op \notin {"add_reading_history", "add_article_feedback"} =>
              (db'.history = db.history /\ db'.feedback = db.feedback)
      ]_vars

\* A second add_reading_history for the same user and article has returned
\* True and the table holds both rows.
C13_Witness ==
    /\ ret.op = "add_reading_history" /\ ret.val
    /\ Len(db.history) = 2
    /\ db.history[1].user_id = db.history[2].user_id
    /\ db.history[1].article_url = db.history[2].article_url

\* C14: on a cache miss with score s from the scorer (s in hundredths),
\* analyze_sentiment returns 'positive' exactly when s > 0.1, 'negative'
\* exactly when s < -0.1 and 'neutral' otherwise; 0.1 and -0.1 themselves
\* give 'neutral'.
C14_PolarityThresholds ==
    (ret.op = "analyze_sentiment" /\ ret.cacheWrote) =>
        /\ ~ret.raised
        /\ (ret.val = "positive") = (ret.pol > PolarityThreshold)
        /\ (ret.val = "negative") = (ret.pol < -PolarityThreshold)
        /\ (ret.val = "neutral")
             = (-PolarityThreshold <= ret.pol /\ ret.pol <= PolarityThreshold)

\* The scorer has returned exactly -0.1 on a miss, after time has passed,
\* and the label is 'neutral'.
C14_Witness ==
    /\ ret.op = "analyze_sentiment" /\ ret.cacheWrote /\ ret.scored
    /\ ret.pol = -PolarityThreshold /\ ret.val = "neutral"
    /\ clock > 0

\* C16 (as claimed): after any sequence of store calls and of
\* create_user_reading_patterns and create_feedback_analysis calls, failing
\* queries included, no connection is open.
C16_NoOpenConnections == connections = 0

====
